---------------------------- MODULE Spec2Model ----------------------------
(***************************************************************************)
(* GoldPriceFetcher: the gold price scraper (gold_price_scraper.py), its   *)
(* command line (main_scraper.py) and the Firestore sink.                  *)
(*                                                                         *)
(* Python strings are sequences of one-character strings, so that lower(), *)
(* replace(), strip(), split() and zfill() are computed and not assumed.   *)
(* Prices are whole rupees per gram (the page's arrays hold integers).     *)
(***************************************************************************)
EXTENDS Integers, Sequences, FiniteSets, TLC

VARIABLES
    call,        \* the pure call under examination: [fn |-> name, ...arguments]
    ret,         \* its return value, meaningful once returned
    returned,    \* whether the call has returned
    pc,          \* position of the process that drives the manager
    op,          \* the scrape call of the manager in progress or just returned
    result,      \* its outcome: [raised, error, value, events]
    firebase_manager,  \* manager.firebase_manager: "none" or "ready"
    push_data,   \* the records of the last push_to_firebase call
    commits,     \* the batches the last push committed, oldest first: each batch is
                 \* the positions in push_data of its writes
    store,       \* the collection: document id -> the fields last written
    push_result, \* what the last push_to_firebase call returned: "none" (no call yet),
                 \* "true", "false"
    pushes,      \* how many push_to_firebase calls have been made
    push_log,    \* per push_to_firebase call: what it returned, the ids then in the
                 \* collection, and which of its commits failed
    summary_store,   \* the summary collection: document id -> the summary last written
    summary_result,  \* what the last push_summary_to_firebase call returned: "none",
                     \* "true", "false"
    args,        \* main: the parsed command line
    main_all_data,  \* main: all_data, the [key, data] entries in insertion order
    main_flat_data  \* main: flat_data

pureVars == <<call, ret, returned>>
scrapeVars == <<op, result>>
pushVars == <<firebase_manager, push_data, commits, store,
              push_result, pushes, push_log, summary_store, summary_result>>
mainVars == <<args, main_all_data, main_flat_data>>
procVars == <<pc, scrapeVars, pushVars, mainVars>>
vars == <<pureVars, procVars>>

(***************************************************************************)
(* String literals of the source.                                          *)
(***************************************************************************)
str_Tanishq == <<"T", "a", "n", "i", "s", "h", "q">>
str_Kalyan_Jewellers == <<"K", "a", "l", "y", "a", "n", " ", "J", "e", "w", "e", "l", "l", "e", "r", "s">>
str_Joyalukkas == <<"J", "o", "y", "a", "l", "u", "k", "k", "a", "s">>
str_Mumbai == <<"M", "u", "m", "b", "a", "i">>
str_Delhi == <<"D", "e", "l", "h", "i">>
str_Bangalore == <<"B", "a", "n", "g", "a", "l", "o", "r", "e">>
str_Chennai == <<"C", "h", "e", "n", "n", "a", "i">>
str_Kolkata == <<"K", "o", "l", "k", "a", "t", "a">>
str_Hyderabad == <<"H", "y", "d", "e", "r", "a", "b", "a", "d">>
str_Pune == <<"P", "u", "n", "e">>
str_Ahmedabad == <<"A", "h", "m", "e", "d", "a", "b", "a", "d">>
str_Jaipur == <<"J", "a", "i", "p", "u", "r">>
str_Lucknow == <<"L", "u", "c", "k", "n", "o", "w">>
str_Kochi == <<"K", "o", "c", "h", "i">>
str_Thrissur == <<"T", "h", "r", "i", "s", "s", "u", "r">>
str_Coimbatore == <<"C", "o", "i", "m", "b", "a", "t", "o", "r", "e">>
str_Dubai == <<"D", "u", "b", "a", "i">>
str_Kuwait == <<"K", "u", "w", "a", "i", "t">>
str_Qatar == <<"Q", "a", "t", "a", "r">>
str_18K == <<"1", "8", "K">>
str_22K == <<"2", "2", "K">>
str_24K == <<"2", "4", "K">>

(***************************************************************************)
(* Python str methods, on sequences of characters.                         *)
(***************************************************************************)
UpperCase == <<"A", "B", "C", "D", "E", "F", "G", "H", "I", "J", "K", "L", "M",
               "N", "O", "P", "Q", "R", "S", "T", "U", "V", "W", "X", "Y", "Z">>
LowerCase == <<"a", "b", "c", "d", "e", "f", "g", "h", "i", "j", "k", "l", "m",
               "n", "o", "p", "q", "r", "s", "t", "u", "v", "w", "x", "y", "z">>
Digits == <<"0", "1", "2", "3", "4", "5", "6", "7", "8", "9">>

UpperSet == {UpperCase[i] : i \in 1..26}

\* the lower-case letter of each upper-case letter
LowerOf == [c \in UpperSet |-> LowerCase[CHOOSE i \in 1..26 : UpperCase[i] = c]]

\* str.lower() on one character
lower_char(c) == IF c \in UpperSet THEN LowerOf[c] ELSE c

\* str.lower()
lower(s) == [i \in 1..Len(s) |-> lower_char(s[i])]

\* str.replace(old, new) for one-character old and new
replace(s, old, new) == [i \in 1..Len(s) |-> IF s[i] = old THEN new ELSE s[i]]

\* "_".join(parts)-like concatenation used by the f-strings: parts joined by sep
RECURSIVE join(_, _)
join(parts, sep) ==
    IF Len(parts) = 0 THEN <<>>
    ELSE IF Len(parts) = 1 THEN parts[1]
    ELSE parts[1] \o sep \o join(Tail(parts), sep)

(***************************************************************************)
(* GoldPriceData: the fields a record is built from.  source_url,          *)
(* additional_info and timestamp take no part in validation or in the      *)
(* document id and are left out.                                           *)
(***************************************************************************)
GoldPriceData(jeweller, city, carat, price, date) ==
    [jeweller |-> jeweller, city |-> city, carat |-> carat,
     price |-> price, date |-> date]

\* get_document_id with the carat left out of the f-string
get_document_id_without_carat(item) ==
    replace(lower(join(<<item.jeweller, item.city, item.date>>, <<"_">>)), " ", "_")

\* f"{jeweller}_{city}_{carat}_{date}".lower().replace(" ", "_")
get_document_id(item) ==
    replace(lower(join(<<item.jeweller, item.city, item.carat, item.date>>, <<"_">>)),
            " ", "_")

(***************************************************************************)
(* The adapters: BaseJewellerScraper.__init__ and the three subclasses.    *)
(***************************************************************************)
ScraperIds == {"tanishq", "kalyan", "joyalukkas"}

\* self.carats
carats == <<str_18K, str_22K, str_24K>>

\* self.supported_cities of each registered adapter
supported_cities(scraper) ==
    CASE scraper = "tanishq" ->
            <<str_Mumbai, str_Delhi, str_Bangalore, str_Chennai, str_Kolkata,
              str_Hyderabad, str_Pune, str_Ahmedabad, str_Jaipur, str_Lucknow>>
      [] scraper = "kalyan" ->
            <<str_Mumbai, str_Delhi, str_Bangalore, str_Chennai, str_Kolkata,
              str_Hyderabad, str_Pune, str_Kochi, str_Thrissur, str_Coimbatore>>
      [] scraper = "joyalukkas" ->
            <<str_Mumbai, str_Delhi, str_Bangalore, str_Chennai, str_Kolkata,
              str_Hyderabad, str_Dubai, str_Kuwait, str_Qatar>>

\* x in list
InList(x, list) == \E i \in 1..Len(list) : list[i] = x

Range(list) == {list[i] : i \in 1..Len(list)}

\* the lower price limit of validate_data (exclusive)
PriceLow == 1000
\* the upper price limit of validate_data (exclusive)
PriceHigh == 20000

\* the condition of the if in validate_data, as an off-by-one slip would write it
item_is_valid_inclusive(scraper, item) ==
    /\ item.price >= PriceLow
    /\ item.price < PriceHigh
    /\ InList(item.carat, carats)
    /\ InList(item.city, supported_cities(scraper))

\* the condition of the if in validate_data
item_is_valid(scraper, item) ==
    /\ item.price > PriceLow
    /\ item.price < PriceHigh
    /\ InList(item.carat, carats)
    /\ InList(item.city, supported_cities(scraper))

\* BaseJewellerScraper.validate_data: the loop appends the valid items in order
RECURSIVE validate_data(_, _)
validate_data(scraper, data) ==
    IF Len(data) = 0 THEN <<>>
    ELSE (IF item_is_valid(scraper, Head(data)) THEN <<Head(data)>> ELSE <<>>)
         \o validate_data(scraper, Tail(data))

(***************************************************************************)
(* More str methods, used by the Tanishq adapter's parsing.                *)
(***************************************************************************)
IsDigit(c) == \E i \in 1..10 : Digits[i] = c

DigitValue(c) == (CHOOSE i \in 1..10 : Digits[i] = c) - 1

Whitespace == {" "}

\* str.strip(chars): drop the leading and the trailing characters that are in chars
RECURSIVE lstrip(_, _)
lstrip(s, chars) ==
    IF Len(s) > 0 /\ Head(s) \in chars THEN lstrip(Tail(s), chars) ELSE s

RECURSIVE rstrip(_, _)
rstrip(s, chars) ==
    IF Len(s) > 0 /\ s[Len(s)] \in chars
    THEN rstrip(SubSeq(s, 1, Len(s) - 1), chars) ELSE s

strip(s, chars) == rstrip(lstrip(s, chars), chars)

\* str.split(sep) for a one-character sep: "" gives [""], "a,,b" gives ["a","","b"]
RECURSIVE split(_, _)
split(s, sep) ==
    IF \E i \in 1..Len(s) : s[i] = sep
    THEN LET first == CHOOSE k \in 1..Len(s) :
                        s[k] = sep /\ \A j \in 1..(k - 1) : s[j] # sep
         IN  <<SubSeq(s, 1, first - 1)>> \o split(SubSeq(s, first + 1, Len(s)), sep)
    ELSE <<s>>

\* str.zfill(width)
RECURSIVE zfill(_, _)
zfill(s, width) == IF Len(s) >= width THEN s ELSE zfill(<<"0">> \o s, width)

\* float(text) on an already stripped token.  The tokens of the modelled pages are
\* runs of digits, the empty string or text with a letter: a run of digits parses
\* to its value, anything else raises ValueError (ok = FALSE).
RECURSIVE DecimalValue(_)
DecimalValue(s) ==
    IF Len(s) = 0 THEN 0
    ELSE 10 * DecimalValue(SubSeq(s, 1, Len(s) - 1)) + DigitValue(s[Len(s)])

float(text) ==
    IF Len(text) > 0 /\ \A i \in 1..Len(text) : IsDigit(text[i])
    THEN [ok |-> TRUE, value |-> DecimalValue(text)]
    ELSE [ok |-> FALSE, value |-> 0]

(***************************************************************************)
(* TanishqScraper._parse_date.                                             *)
(***************************************************************************)
\* The names bound at module level in gold_price_scraper.py: its imports and its
\* definitions.  "re" is imported only inside scrape_city_prices, as a local name
\* of that function.
ModuleGlobals ==
    {"json", "time", "argparse", "datetime", "timedelta", "ABC", "abstractmethod",
     "List", "Dict", "Any", "Optional", "logging", "logger",
     "GoldPriceData", "BaseJewellerScraper", "TanishqScraper",
     "KalyanJewellersScraper", "JoyalukkasJewellersScraper", "GoldPriceManager"}

\* re.match(r'\d{2}<sep>\d{2}<sep>\d{4}', text): a match at the start of text
re_match_date(text, sep) ==
    /\ Len(text) >= 10
    /\ \A i \in {1, 2, 4, 5, 7, 8, 9, 10} : IsDigit(text[i])
    /\ text[3] = sep
    /\ text[6] = sep

\* day, month, year = text.split(sep); f"{year}-{month.zfill(2)}-{day.zfill(2)}"
\* (the unpacking raises ValueError unless there are three parts; the except
\* clause then returns the text)
reformat_date(text, sep) ==
    LET parts == split(text, sep) IN
    IF Len(parts) # 3 THEN text
    ELSE parts[3] \o <<"-">> \o zfill(parts[2], 2) \o <<"-">> \o zfill(parts[1], 2)

\* _parse_date: the first statement of the try block reads the global name re;
\* when the module binds no such name the read raises NameError, which the
\* except Exception clause catches, returning date_text.
_parse_date(date_text) ==
    IF "re" \notin ModuleGlobals THEN date_text
    ELSE IF re_match_date(date_text, "-") THEN reformat_date(date_text, "-")
    ELSE IF re_match_date(date_text, "/") THEN reformat_date(date_text, "/")
    ELSE date_text

(***************************************************************************)
(* TanishqScraper._extract_from_hidden_inputs.  A page is a function from  *)
(* the ids of its hidden inputs to [present, value]: find_element raises   *)
(* NoSuchElementException for an id that is not present.  The result dict  *)
(* is the sequence of its [carat, prices] entries in insertion order.      *)
(***************************************************************************)
DatesInputId == "goldRateDates"

\* input_ids, in the order the dict literal lists them
input_ids ==
    <<[carat |-> str_18K, id |-> "goldRate18KT"],
      [carat |-> str_22K, id |-> "goldRate22KT"],
      [carat |-> str_24K, id |-> "goldRate24KT"]>>

PageIds == {DatesInputId} \cup {input_ids[k].id : k \in 1..Len(input_ids)}

Brackets == {"[", "]"}

\* dates_list = [date.strip() for date in dates_value.strip('[]').split(',')]
parse_dates(dates_value) ==
    LET tokens == split(strip(dates_value, Brackets), ",")
    IN  [i \in 1..Len(tokens) |-> strip(tokens[i], Whitespace)]

\* prices_list = [float(price.strip()) for price in prices_value.strip('[]').split(',')]
\* ok = FALSE when a float() raises
parse_prices(prices_value) ==
    LET tokens == split(strip(prices_value, Brackets), ",")
        parsed == [i \in 1..Len(tokens) |-> float(strip(tokens[i], Whitespace))]
    IN  [ok |-> \A i \in 1..Len(tokens) : parsed[i].ok,
         list |-> [i \in 1..Len(tokens) |-> parsed[i].value]]

\* the loop over enumerate(zip(dates_list, prices_list)), from 0-based index i,
\* as it would run with the limit test written i > days
RECURSIVE zip_pairs_off_by_one(_, _, _, _)
zip_pairs_off_by_one(dates_list, prices_list, i, days) ==
    IF i >= Len(dates_list) \/ i >= Len(prices_list) THEN <<>>
    ELSE IF i > days THEN <<>>
    ELSE LET formatted_date == _parse_date(dates_list[i + 1])
         IN  (IF Len(formatted_date) > 0
              THEN <<[price |-> prices_list[i + 1], date |-> formatted_date]>>
              ELSE <<>>)
             \o zip_pairs_off_by_one(dates_list, prices_list, i + 1, days)

\* the loop over enumerate(zip(dates_list, prices_list)), from 0-based index i:
\* zip stops at the shorter list, the loop breaks at i >= days, and a pair whose
\* formatted date is the empty string is skipped
RECURSIVE zip_pairs(_, _, _, _)
zip_pairs(dates_list, prices_list, i, days) ==
    IF i >= Len(dates_list) \/ i >= Len(prices_list) THEN <<>>
    ELSE IF i >= days THEN <<>>
    ELSE LET formatted_date == _parse_date(dates_list[i + 1])
         IN  (IF Len(formatted_date) > 0
              THEN <<[price |-> prices_list[i + 1], date |-> formatted_date]>>
              ELSE <<>>)
             \o zip_pairs(dates_list, prices_list, i + 1, days)

\* list.reverse()
reverse(s) == [i \in 1..Len(s) |-> s[Len(s) + 1 - i]]

\* carat_data of one karat, without the reverse() call
carat_data_not_reversed(dates_list, prices_list, days) ==
    zip_pairs(dates_list, prices_list, 0, days)

\* carat_data of one karat: the pairs, then carat_data.reverse()
carat_data(dates_list, prices_list, days) ==
    reverse(zip_pairs(dates_list, prices_list, 0, days))

\* the for loop over input_ids with no try of its own: the first karat whose
\* element is missing or whose prices do not parse ends the loop, and the outer
\* except returns {}
RECURSIVE extract_carats_abort_on_failure(_, _, _, _)
extract_carats_abort_on_failure(page, dates_list, days, k) ==
    IF \E j \in k..Len(input_ids) :
            \/ ~page[input_ids[j].id].present
            \/ ~parse_prices(page[input_ids[j].id].value).ok
    THEN <<>>
    ELSE [j \in 1..(Len(input_ids) - k + 1) |->
            [carat |-> input_ids[k + j - 1].carat,
             prices |-> carat_data(dates_list,
                                   parse_prices(page[input_ids[k + j - 1].id].value).list, days)]]

\* the for loop over input_ids, from its k-th entry: a karat whose element is
\* missing or whose prices do not parse is skipped by the inner except
RECURSIVE extract_carats(_, _, _, _)
extract_carats(page, dates_list, days, k) ==
    IF k > Len(input_ids) THEN <<>>
    ELSE LET price_input == page[input_ids[k].id]
             prices == parse_prices(price_input.value)
         IN  (IF price_input.present /\ prices.ok
              THEN <<[carat |-> input_ids[k].carat,
                      prices |-> carat_data(dates_list, prices.list, days)]>>
              ELSE <<>>)
             \o extract_carats(page, dates_list, days, k + 1)

\* _extract_from_hidden_inputs: a missing dates element raises out of the outer
\* try, whose except returns {}
_extract_from_hidden_inputs(page, days) ==
    IF ~page[DatesInputId].present THEN <<>>
    ELSE extract_carats(page, parse_dates(page[DatesInputId].value), days, 1)

(***************************************************************************)
(* GoldPriceManager.create_summary_data.  all_data is a function from the  *)
(* retailer keys of the dict to their record lists; the dict is iterated   *)
(* in the order the manager registers the adapters.                        *)
(***************************************************************************)
\* self.scrapers.keys(), in registration order
scraper_order == <<"tanishq", "kalyan", "joyalukkas">>

\* Python's order on the characters of the modelled strings (their code points)
CharOrder ==
    <<" ", "-", ".", "/">> \o Digits \o UpperCase \o <<"[", "]", "_">> \o LowerCase

ord(c) == CHOOSE i \in 1..Len(CharOrder) : CharOrder[i] = c

\* a < b on str: lexicographic by code point, a proper prefix first
RECURSIVE str_less(_, _)
str_less(a, b) ==
    IF Len(b) = 0 THEN FALSE
    ELSE IF Len(a) = 0 THEN TRUE
    ELSE IF Head(a) # Head(b) THEN ord(Head(a)) < ord(Head(b))
    ELSE str_less(Tail(a), Tail(b))

\* min() and max() of a non-empty set of str
str_min(S) == CHOOSE x \in S : \A y \in S : y = x \/ str_less(x, y)
str_max(S) == CHOOSE x \in S : \A y \in S : y = x \/ str_less(y, x)

\* Python's None, or a value
None == [is_none |-> TRUE, value |-> <<>>]
Some(v) == [is_none |-> FALSE, value |-> v]

\* the records of the dict's lists, in iteration order
RECURSIVE all_items(_, _)
all_items(all_data, k) ==
    IF k > Len(scraper_order) THEN <<>>
    ELSE (IF scraper_order[k] \in DOMAIN all_data THEN all_data[scraper_order[k]] ELSE <<>>)
         \o all_items(all_data, k + 1)

\* latest_rates: for each key jeweller_city_carat the last record of the latest date
latest_rates_of(items, latest_date) ==
    LET key(r) == join(<<r.jeweller, r.city, r.carat>>, <<"_">>)
        hits == { i \in 1..Len(items) : items[i].date = latest_date }
        keys == { key(items[i]) : i \in hits }
    IN  [ k \in keys |->
            items[CHOOSE i \in hits : /\ key(items[i]) = k
                                      /\ \A j \in hits : key(items[j]) = k => j <= i] ]

\* create_summary_data with the date range computed without the "if all_dates"
\* guards: min() of an empty set raises ValueError
create_summary_data_unguarded(all_data) ==
    LET items == all_items(all_data, 1)
        all_dates == { items[i].date : i \in 1..Len(items) }
        all_cities == { items[i].city : i \in 1..Len(items) }
    IN  [raised |-> all_dates = {},
         total_entries |-> Len(items),
         jewellers |-> DOMAIN all_data,
         cities |-> all_cities,
         date_range |-> IF all_dates = {} THEN [from |-> None, to |-> None]
                        ELSE [from |-> Some(str_min(all_dates)),
                              to |-> Some(str_max(all_dates))],
         latest_rates |-> IF all_dates = {} THEN <<>>
                          ELSE latest_rates_of(items, str_max(all_dates))]

\* create_summary_data: jewellers and cities are the lists of the sets built by the
\* loop (their order is unspecified, so they are kept as sets); all_jewellers gets
\* every key of the dict, whether or not its list holds a record
create_summary_data(all_data) ==
    LET items == all_items(all_data, 1)
        all_dates == { items[i].date : i \in 1..Len(items) }
        all_cities == { items[i].city : i \in 1..Len(items) }
        latest_date == IF all_dates # {} THEN Some(str_max(all_dates)) ELSE None
    IN  [raised |-> FALSE,
         total_entries |-> Len(items),
         jewellers |-> DOMAIN all_data,
         cities |-> all_cities,
         date_range |-> [from |-> IF all_dates # {} THEN Some(str_min(all_dates)) ELSE None,
                         to |-> IF all_dates # {} THEN Some(str_max(all_dates)) ELSE None],
         latest_rates |-> IF latest_date.is_none THEN <<>>
                          ELSE latest_rates_of(items, latest_date.value)]

(***************************************************************************)
(* scrape_city_prices of the three adapters.  What the browser and the     *)
(* site do during one call is its environment env = [fault, page]:         *)
(*   none        nothing fails                                             *)
(*   import      the selenium imports at the top of the method raise       *)
(*   launch      webdriver.Chrome() raises                                 *)
(*   load        driver.get() raises, the handler's driver.quit() succeeds *)
(*   load_quit   driver.get() raises and the handler's driver.quit() too   *)
(*   quit_once   the try block's driver.quit() raises, the handler's not   *)
(*   quit_twice  both driver.quit() calls raise                            *)
(* A call's outcome is [raised, value, events]; events are what the call   *)
(* did to the outside, in order.                                           *)
(***************************************************************************)
Faults == {"none", "import", "launch", "load", "load_quit", "quit_once", "quit_twice"}

Event(ev, scraper, city, secs) == [ev |-> ev, scraper |-> scraper, city |-> city, secs |-> secs]

\* time.sleep(15): the settle delay after driver.get
PageLoadDelay == 15
\* time.sleep(2): the delay between cities in scrape_all_cities
CityDelay == 2
\* time.sleep(5): the delay between jewellers in scrape_all_jewellers
JewellerDelay == 5

Returns(value, events) == [raised |-> FALSE, error |-> "", value |-> value, events |-> events]
Raises(error, events) == [raised |-> TRUE, error |-> error, value |-> <<>>, events |-> events]

\* the loop over all_price_data.items() and its prices: one GoldPriceData per
\* price item, karat by karat, from entry e and item j on
RECURSIVE structured_data(_, _, _, _)
structured_data(all_price_data, city, e, j) ==
    IF e > Len(all_price_data) THEN <<>>
    ELSE IF j > Len(all_price_data[e].prices) THEN structured_data(all_price_data, city, e + 1, 1)
    ELSE <<GoldPriceData(str_Tanishq, city, all_price_data[e].carat,
                         all_price_data[e].prices[j].price,
                         all_price_data[e].prices[j].date)>>
         \o structured_data(all_price_data, city, e, j + 1)

\* TanishqScraper.scrape_city_prices
tanishq_scrape_city_prices(city, days, env) ==
    LET start == Event("browser_start", "tanishq", city, 0)
        get   == Event("page_get", "tanishq", city, 0)
        wait  == Event("sleep", "tanishq", city, PageLoadDelay)
        quit  == Event("browser_quit", "tanishq", city, 0)
        fail  == Event("browser_quit_failed", "tanishq", city, 0)
        data  == structured_data(_extract_from_hidden_inputs(env.page, days), city, 1, 1)
    IN  CASE env.fault = "import"     -> Raises("ImportError", <<>>)
          [] env.fault = "launch"     -> Returns(<<>>, <<>>)
          [] env.fault = "load"       -> Returns(<<>>, <<start, get, quit>>)
          [] env.fault = "load_quit"  -> Raises("WebDriverException", <<start, get, fail>>)
          [] env.fault = "quit_once"  -> Returns(<<>>, <<start, get, wait, fail, quit>>)
          [] env.fault = "quit_twice" -> Raises("WebDriverException", <<start, get, wait, fail, fail>>)
          [] OTHER                    -> Returns(data, <<start, get, wait, quit>>)

\* scraper.scrape_city_prices(city, days): the Kalyan and Joyalukkas adapters are
\* placeholders that return [] and touch nothing
scrape_city_prices(scraper, city, days, env) ==
    LET called == <<Event("scrape_city_prices", scraper, city, 0)>>
        out == IF scraper = "tanishq" THEN tanishq_scrape_city_prices(city, days, env)
               ELSE Returns(<<>>, <<>>)
    IN  [out EXCEPT !.events = called \o out.events]

\* BaseJewellerScraper.scrape_all_cities, from the i-th supported city: a call that
\* raises is logged and skipped, together with the sleep that follows a call
RECURSIVE scrape_all_cities(_, _, _, _)
scrape_all_cities(scraper, days, envs, i) ==
    IF i > Len(supported_cities(scraper)) THEN Returns(<<>>, <<>>)
    ELSE LET one == scrape_city_prices(scraper, supported_cities(scraper)[i], days, envs[i])
             rest == scrape_all_cities(scraper, days, envs, i + 1)
             pause == Event("sleep", scraper, supported_cities(scraper)[i], CityDelay)
         IN  IF one.raised
             THEN Returns(rest.value, one.events \o rest.events)
             ELSE Returns(one.value \o rest.value, one.events \o <<pause>> \o rest.events)

\* the city loop of scrape_jeweller without the supported_cities test: the adapter
\* is called for every requested city
RECURSIVE scrape_requested_cities_unfiltered(_, _, _, _, _)
scrape_requested_cities_unfiltered(scraper, cities, days, envs, i) ==
    IF i > Len(cities) THEN Returns(<<>>, <<>>)
    ELSE LET one == scrape_city_prices(scraper, cities[i], days, envs[i])
             rest == scrape_requested_cities_unfiltered(scraper, cities, days, envs, i + 1)
         IN  IF one.raised THEN one
             ELSE IF rest.raised THEN [rest EXCEPT !.events = one.events \o rest.events]
             ELSE Returns(one.value \o rest.value, one.events \o rest.events)

\* the loop of scrape_jeweller over the requested cities, from the i-th: a city the
\* adapter does not support is skipped with a warning, and a call that raises
\* ends the loop and the method
RECURSIVE scrape_requested_cities(_, _, _, _, _)
scrape_requested_cities(scraper, cities, days, envs, i) ==
    IF i > Len(cities) THEN Returns(<<>>, <<>>)
    ELSE IF ~InList(cities[i], supported_cities(scraper))
    THEN scrape_requested_cities(scraper, cities, days, envs, i + 1)
    ELSE LET one == scrape_city_prices(scraper, cities[i], days, envs[i])
             rest == scrape_requested_cities(scraper, cities, days, envs, i + 1)
         IN  IF one.raised THEN one
             ELSE IF rest.raised THEN [rest EXCEPT !.events = one.events \o rest.events]
             ELSE Returns(one.value \o rest.value, one.events \o rest.events)

\* "if cities:" is true for a list that is neither None nor empty
Truthy(cities) == ~cities.is_none /\ Len(cities.value) > 0

\* scrape_jeweller without the membership test: an unknown name gets the first
\* registered adapter
scrape_jeweller_unchecked(jeweller_name, cities, days, envs) ==
    LET scraper == IF jeweller_name \in ScraperIds THEN jeweller_name ELSE scraper_order[1]
    IN  IF Truthy(cities)
        THEN scrape_requested_cities(scraper, cities.value, days, envs, 1)
        ELSE scrape_all_cities(scraper, days, envs, 1)

\* GoldPriceManager.scrape_jeweller
scrape_jeweller(jeweller_name, cities, days, envs) ==
    IF jeweller_name \notin ScraperIds
    THEN Raises("ValueError: Unsupported jeweller", <<>>)
    ELSE IF Truthy(cities)
    THEN scrape_requested_cities(jeweller_name, cities.value, days, envs, 1)
    ELSE scrape_all_cities(jeweller_name, days, envs, 1)

\* the loop of scrape_all_jewellers with no try around scrape_jeweller: the first
\* raise ends it, and the keys from there on are never set
RECURSIVE scrape_all_jewellers_unguarded(_, _, _, _)
scrape_all_jewellers_unguarded(cities, days, envs, k) ==
    IF k > Len(scraper_order) THEN Returns(<<>>, <<>>)
    ELSE LET name == scraper_order[k]
             one == scrape_jeweller(name, cities, days, envs[name])
             rest == scrape_all_jewellers_unguarded(cities, days, envs, k + 1)
             pause == Event("sleep", name, <<>>, JewellerDelay)
         IN  IF one.raised THEN Raises(one.error, one.events)
             ELSE [rest EXCEPT !.value = <<[key |-> name, data |-> one.value]>> \o rest.value,
                               !.events = one.events \o <<pause>> \o rest.events]

\* GoldPriceManager.scrape_all_jewellers, from the k-th registered adapter: the
\* value is the dict as the sequence of its [key, data] entries in insertion
\* order; a scrape_jeweller that raises sets its key to [] and skips the sleep
RECURSIVE scrape_all_jewellers(_, _, _, _)
scrape_all_jewellers(cities, days, envs, k) ==
    IF k > Len(scraper_order) THEN Returns(<<>>, <<>>)
    ELSE LET name == scraper_order[k]
             one == scrape_jeweller(name, cities, days, envs[name])
             rest == scrape_all_jewellers(cities, days, envs, k + 1)
             pause == Event("sleep", name, <<>>, JewellerDelay)
         IN  IF one.raised
             THEN Returns(<<[key |-> name, data |-> <<>>]>> \o rest.value,
                          one.events \o rest.events)
             ELSE Returns(<<[key |-> name, data |-> one.value]>> \o rest.value,
                          one.events \o <<pause>> \o rest.events)

(***************************************************************************)
(* GoldPriceManager.push_to_firebase and the Firestore collection it       *)
(* writes.  The collection is a function from document ids to the fields   *)
(* last written; batch.set(doc_ref, fields, merge=True) queues a write and *)
(* batch.commit() applies the queued writes in order, all or none.         *)
(***************************************************************************)
\* the batch size at which push_to_firebase commits
BatchCap == 500

\* the commit test, as an off-by-one slip would write it
batch_is_full_off_by_one(count) == count > BatchCap

\* if batch_count >= 500
batch_is_full(count) == count >= BatchCap

\* a document reference chosen by the store for each write (collection.add()):
\* a new document per write
document_auto_id(records, i, nth_push) ==
    get_document_id(records[i]) \o <<"#">> \o <<Digits[nth_push + 1]>>

\* doc_ref of the i-th record: collection(collection_name).document(item.get_document_id())
document_id(records, i, nth_push) == get_document_id(records[i])

\* the collection after the writes of a committed batch
committed(collection, records, writes, nth_push) ==
    LET ids == [w \in 1..Len(writes) |-> document_id(records, writes[w], nth_push)]
        idset == { ids[w] : w \in 1..Len(writes) }
        last(d) == CHOOSE w \in 1..Len(writes) :
                       ids[w] = d /\ \A v \in (w + 1)..Len(writes) : ids[v] # d
    IN  [ d \in (DOMAIN collection) \cup idset |->
            IF d \in idset THEN records[writes[last(d)]] ELSE collection[d] ]

\* the rounds of the for loop from the i-th record up to the next commit or the end
\* of the records: each round queues one write and adds 1 to batch_count, and the
\* first round that finds the batch full commits.  writes are the positions
\* queued; full tells whether the rounds ended at a full batch.
rounds_to_commit(records, i) ==
    LET left == Len(records) - i + 1
        full == \E c \in 1..left : batch_is_full(c)
        count == IF full
                 THEN CHOOSE c \in 1..left :
                        batch_is_full(c) /\ \A b \in 1..(c - 1) : ~batch_is_full(b)
                 ELSE left
    IN  [writes |-> [w \in 1..count |-> i + w - 1], full |-> full]

\* push_to_firebase with a commit that is not all-or-none: the writes queued in the
\* batch whose commit raises are applied all the same
RECURSIVE push_loop_commit_not_atomic(_, _, _, _, _, _)
push_loop_commit_not_atomic(records, i, done, collection, nth_push, fail_at) ==
    IF i > Len(records)
    THEN [result |-> "true", commits |-> done, store |-> collection]
    ELSE LET rounds == rounds_to_commit(records, i)
             after == committed(collection, records, rounds.writes, nth_push)
         IN  IF Len(done) + 1 = fail_at
             THEN [result |-> "false", commits |-> done, store |-> after]
             ELSE IF rounds.full
             THEN push_loop_commit_not_atomic(records, i + Len(rounds.writes),
                                              Append(done, rounds.writes), after, nth_push, fail_at)
             ELSE [result |-> "true", commits |-> Append(done, rounds.writes),
                   store |-> after]

\* push_to_firebase from the i-th record on an empty batch, after the commits
\* done: the loop's commits and then the commit of what is left in the batch.  The
\* fail_at-th batch.commit() of the call raises (0: none does), which ends the
\* method in its except clause with False.
RECURSIVE push_loop(_, _, _, _, _, _)
push_loop(records, i, done, collection, nth_push, fail_at) ==
    IF i > Len(records)
    THEN [result |-> "true", commits |-> done, store |-> collection]
    ELSE LET rounds == rounds_to_commit(records, i)
             after == committed(collection, records, rounds.writes, nth_push)
         IN  IF Len(done) + 1 = fail_at
             THEN [result |-> "false", commits |-> done, store |-> collection]
             ELSE IF rounds.full
             THEN push_loop(records, i + Len(rounds.writes), Append(done, rounds.writes),
                            after, nth_push, fail_at)
             ELSE [result |-> "true", commits |-> Append(done, rounds.writes),
                   store |-> after]

\* GoldPriceManager.push_to_firebase: without a sink it returns False at once
push_to_firebase(sink, collection, records, nth_push, fail_at) ==
    IF sink = "none"
    THEN [result |-> "false", commits |-> <<>>, store |-> collection]
    ELSE push_loop(records, 1, <<>>, collection, nth_push, fail_at)

\* a call of push_to_firebase on these records, in this environment
PushCall(records, fail_at) ==
    LET out == push_to_firebase(firebase_manager, store, records, pushes + 1, fail_at) IN
    /\ pushes' = pushes + 1
    /\ push_data' = records
    /\ push_result' = out.result
    /\ commits' = out.commits
    /\ store' = out.store
    /\ push_log' = Append(push_log, [result |-> out.result, ids |-> DOMAIN out.store,
                                     fail_at |-> fail_at])
    /\ UNCHANGED <<firebase_manager, summary_store, summary_result>>

\* GoldPriceManager.__init__ as it would be if a sink whose initialization failed
\* were kept
manager_init_keeps_failed_sink(firebase_service_account_path) ==
    IF firebase_service_account_path # "none" THEN "ready" ELSE "none"

\* GoldPriceManager.push_summary_to_firebase: without a sink it returns False at
\* once; with one it sets the document named after today's date, and a set() that
\* raises ends the method in its except clause with False
push_summary_to_firebase(sink, collection, summary_data, today, set_fails) ==
    IF sink = "none" THEN [result |-> "false", store |-> collection]
    ELSE IF set_fails THEN [result |-> "false", store |-> collection]
    ELSE [result |-> "true",
          store |-> [d \in (DOMAIN collection) \cup {today} |->
                        IF d = today THEN summary_data ELSE collection[d]]]

(***************************************************************************)
(* main() of main_scraper.py.                                              *)
(***************************************************************************)
\* FirebaseManager.initialize_firebase with the service account file at this path:
\* credentials.Certificate raises for a file that is missing or no key, and the
\* except clause returns False
initialize_firebase(service_account_path) == service_account_path = "valid"

\* GoldPriceManager.__init__: firebase_manager stays None without a path and when
\* the initialization fails
manager_init(firebase_service_account_path) ==
    IF firebase_service_account_path # "none" /\ initialize_firebase(firebase_service_account_path)
    THEN "ready"
    ELSE "none"

\* the scrape block of main from the k-th requested jeweller: one scrape_jeweller
\* call each, un-guarded, so a call that raises ends main; the value is all_data
RECURSIVE main_scrape(_, _, _, _, _)
main_scrape(jewellers, cities, days, envs, k) ==
    IF k > Len(jewellers) THEN Returns(<<>>, <<>>)
    ELSE LET one == scrape_jeweller(jewellers[k], cities, days, envs[jewellers[k]])
             rest == main_scrape(jewellers, cities, days, envs, k + 1)
         IN  IF one.raised THEN one
             ELSE IF rest.raised THEN [rest EXCEPT !.events = one.events \o rest.events]
             ELSE Returns(<<[key |-> jewellers[k], data |-> one.value]>> \o rest.value,
                          one.events \o rest.events)

\* flat_data: the lists of all_data.values(), end to end
RECURSIVE flatten(_)
flatten(entries) ==
    IF Len(entries) = 0 THEN <<>> ELSE Head(entries).data \o flatten(Tail(entries))

(***************************************************************************)
(* Bounds and input sets of the pure-function specifications.              *)
(***************************************************************************)
\* longest record batch handed to validate_data
MaxBatchLen == 3

str_2025_07_21 == <<"2", "0", "2", "5", "-", "0", "7", "-", "2", "1">>
str_22k == <<"2", "2", "k">>

ValidateRecords ==
    { GoldPriceData(str_Tanishq, c, k, p, str_2025_07_21) :
        c \in {str_Mumbai, str_Kochi},
        k \in {str_22K, str_22k},
        p \in {PriceLow, PriceLow + 1, PriceHigh - 1, PriceHigh} }

SeqsUpTo(S, n) == UNION { [1..m -> S] : m \in 0..n }

NoOp == [name |-> "none"]
NoResult == [raised |-> FALSE, error |-> "", value |-> <<>>, events |-> <<>>]
NoArgs == [jewellers |-> <<>>]

\* the manager, the sink and main before anything has been called
IdleScrape == op = NoOp /\ result = NoResult
IdlePush ==
    /\ push_data = <<>>
    /\ commits = <<>>
    /\ store = <<>>
    /\ push_result = "none"
    /\ pushes = 0
    /\ push_log = <<>>
    /\ summary_store = <<>>
    /\ summary_result = "none"
IdleMain == args = NoArgs /\ main_all_data = <<>> /\ main_flat_data = <<>>

IdleProc ==
    /\ pc = "idle"
    /\ firebase_manager = "none"
    /\ IdleScrape
    /\ IdlePush
    /\ IdleMain

NoCall == call = [fn |-> "none"] /\ ret = <<>> /\ returned = FALSE

(***************************************************************************)
(* SpecValidate: validate_data applied to every batch of up to MaxBatchLen *)
(* records, by every adapter.                                              *)
(***************************************************************************)
InitValidate ==
    /\ call \in { [fn |-> "validate_data", scraper |-> s, data |-> d] :
                    s \in ScraperIds, d \in SeqsUpTo(ValidateRecords, MaxBatchLen) }
    /\ ret = <<>>
    /\ returned = FALSE
    /\ IdleProc

CallValidateData ==
    /\ ~returned
    /\ call.fn = "validate_data"
    /\ ret' = validate_data(call.scraper, call.data)
    /\ returned' = TRUE
    /\ UNCHANGED <<call, procVars>>

NextValidate == CallValidateData

SpecValidate == InitValidate /\ [][NextValidate]_vars

\* The three clauses of the spec's record invariant, for adapter s.
AcceptableRecord(s, r) ==
    /\ 1000 < r.price
    /\ r.price < 20000
    /\ r.carat \in {str_18K, str_22K, str_24K}
    /\ r.city \in Range(supported_cities(s))

\* The positions of data whose record is acceptable.
KeptPositions(s, data) == { i \in 1..Len(data) : AcceptableRecord(s, data[i]) }

\* The j-th smallest member of a set of positions.
NthPosition(P, j) == CHOOSE i \in P : Cardinality({ k \in P : k <= i }) = j

\* C2: validate_data returns exactly the input records with 1000 < price <
\* 20000, carat in 18K/22K/24K and city supported by the adapter, in their
\* original relative order, each unchanged.
C2_ValidateExact ==
    (returned /\ call.fn = "validate_data") =>
        LET P == KeptPositions(call.scraper, call.data) IN
        /\ Len(ret) = Cardinality(P)
        /\ \A j \in 1..Len(ret) : ret[j] = call.data[NthPosition(P, j)]

\* C2 witness: a batch whose first record fails one clause (price exactly
\* 1000) and whose later records pass; the later records are returned.
C2_Witness ==
    /\ returned
    /\ call.fn = "validate_data"
    /\ Len(call.data) = 3
    /\ call.data[1].price = 1000
    /\ InList(call.data[1].carat, carats)
    /\ InList(call.data[1].city, supported_cities(call.scraper))
    /\ call.data[2] # call.data[3]
    /\ ret = <<call.data[2], call.data[3]>>

(***************************************************************************)
(* SpecDate: _parse_date applied to date tokens of each format.            *)
(***************************************************************************)
DayTokens == {<<"2", "1">>, <<"0", "1">>, <<"3", "1">>, <<"0", "9">>}
MonthTokens == {<<"0", "7">>, <<"1", "2">>}
YearTokens == {<<"2", "0", "2", "5">>, <<"1", "9", "9", "9">>}

\* DD<sep>MM<sep>YYYY
DayFirst(d, m, y, sep) == d \o <<sep>> \o m \o <<sep>> \o y

\* YYYY-MM-DD
IsoDate(d, m, y) == y \o <<"-">> \o m \o <<"-">> \o d

DayFirstTokens(sep) ==
    { DayFirst(d, m, y, sep) : d \in DayTokens, m \in MonthTokens, y \in YearTokens }

IsoTokens == { IsoDate(d, m, y) : d \in DayTokens, m \in MonthTokens, y \in YearTokens }

\* tokens of no recognised format: empty, dotted, one-digit day and month
OtherTokens ==
    { <<>>,
      <<"2", "1", ".", "0", "7", ".", "2", "0", "2", "5">>,
      <<"1", "-", "7", "-", "2", "0", "2", "5">>,
      <<"J", "u", "l", " ", "2", "1">> }

DateTexts == DayFirstTokens("-") \cup DayFirstTokens("/") \cup IsoTokens \cup OtherTokens

InitDate ==
    /\ call \in { [fn |-> "_parse_date", date_text |-> t] : t \in DateTexts }
    /\ ret = <<>>
    /\ returned = FALSE
    /\ IdleProc

CallParseDate ==
    /\ ~returned
    /\ call.fn = "_parse_date"
    /\ ret' = _parse_date(call.date_text)
    /\ returned' = TRUE
    /\ UNCHANGED <<call, procVars>>

NextDate == CallParseDate

SpecDate == InitDate /\ [][NextDate]_vars

\* C3: _parse_date maps every DD-MM-YYYY token and every DD/MM/YYYY token to
\* YYYY-MM-DD and returns a YYYY-MM-DD token unchanged.
C3_DateNormalized ==
    (returned /\ call.fn = "_parse_date") =>
        \A d \in DayTokens, m \in MonthTokens, y \in YearTokens :
            /\ call.date_text \in {DayFirst(d, m, y, "-"), DayFirst(d, m, y, "/")}
                    => ret = IsoDate(d, m, y)
            /\ call.date_text = IsoDate(d, m, y) => ret = call.date_text


(***************************************************************************)
(* SpecExtract: _extract_from_hidden_inputs applied to rate pages.  A page *)
(* is rendered from its content: the date tokens, the number of prices of  *)
(* each karat's array, and whether each karat's input is there and clean.  *)
(***************************************************************************)
\* longest date array and longest price array of a page
MaxDates == 5

\* the date token of the i-th day: 0i-07-2025
DateToken(i) == DayFirst(<<"0", Digits[i + 1]>>, <<"0", "7">>, <<"2", "0", "2", "5">>, "-")

\* the price token of karat entry k on the i-th day: the digits k, 5, 0, i
PriceToken(k, i) == <<Digits[k + 6], "5", "0", Digits[i + 1]>>

\* the value PriceToken(k, i) denotes
PriceValue(k, i) == (k + 5) * 1000 + 500 + i

\* the value attribute of an array input: [t1, t2, ...]
RenderArray(tokens) == <<"[">> \o join(tokens, <<",", " ">>) \o <<"]">>

FieldStates == {"ok", "missing", "garbled"}

str_NA == <<"N", "/", "A">>

\* the page with these date tokens (absent when hasDates is false) and, for karat
\* entry k, m price tokens: state[k] tells whether the input is present and clean
RenderPage(hasDates, dates, m, state) ==
    [id \in PageIds |->
        IF id = DatesInputId
        THEN [present |-> hasDates, value |-> RenderArray(dates)]
        ELSE LET k == CHOOSE k \in 1..Len(input_ids) : input_ids[k].id = id
                 tokens == [i \in 1..m |-> PriceToken(k, i)]
             IN  [present |-> state[k] # "missing",
                  value |-> IF state[k] = "garbled"
                            THEN RenderArray(Append(tokens, str_NA))
                            ELSE RenderArray(tokens)]]

\* date arrays: each position holds its day's token, but for at most one position,
\* which holds an empty token
DateArrays ==
    UNION { { [i \in 1..n |-> IF i = e THEN <<>> ELSE DateToken(i)] : e \in 0..n }
            : n \in 0..MaxDates }

ExtractCalls ==
    { [fn |-> "_extract_from_hidden_inputs",
       hasDates |-> h, dates |-> d, m |-> m, state |-> st, days |-> days,
       page |-> RenderPage(h, d, m, st)] :
        h \in BOOLEAN, d \in DateArrays, m \in 0..MaxDates,
        st \in [1..Len(input_ids) -> FieldStates], days \in (-1)..(MaxDates + 1) }

InitExtract ==
    /\ call \in { c \in ExtractCalls : c.hasDates \/ c.dates = <<>> }
    /\ ret = <<>>
    /\ returned = FALSE
    /\ IdleProc

CallExtract ==
    /\ ~returned
    /\ call.fn = "_extract_from_hidden_inputs"
    /\ ret' = _extract_from_hidden_inputs(call.page, call.days)
    /\ returned' = TRUE
    /\ UNCHANGED <<call, procVars>>

NextExtract == CallExtract

SpecExtract == InitExtract /\ [][NextExtract]_vars

\* the pair built from date token i and price i of karat entry k
PairOf(c, k, i) == [price |-> PriceValue(k, i), date |-> _parse_date(c.dates[i])]

\* the case of C4: N dates, none an empty token, N prices, 0 < days < N
C4_Case(c, k) ==
    /\ c.hasDates
    /\ c.state[k] = "ok"
    /\ Len(c.dates) = c.m
    /\ \A i \in 1..Len(c.dates) : c.dates[i] # <<>>
    /\ 0 < c.days
    /\ c.days < c.m

\* C4: for N dates and N prices oldest-first and 0 < D < N, a karat's extraction
\* pairs date i with price i, keeps exactly the first D pairs and lists them
\* newest first: pair(D), ..., pair(1).
C4_FirstDaysReversed ==
    (returned /\ call.fn = "_extract_from_hidden_inputs") =>
        \A k \in 1..Len(input_ids) :
            C4_Case(call, k) =>
                \E e \in 1..Len(ret) :
                    /\ ret[e].carat = input_ids[k].carat
                    /\ Len(ret[e].prices) = call.days
                    /\ \A j \in 1..call.days :
                           ret[e].prices[j] = PairOf(call, k, call.days + 1 - j)

\* C4 witness: five dates d1..d5, five 22K prices and days = 3 give the 22K
\* pairs of d3, d2, d1 in that order.
C4_Witness ==
    /\ returned
    /\ call.fn = "_extract_from_hidden_inputs"
    /\ C4_Case(call, 2)
    /\ call.m = 5
    /\ call.days = 3
    /\ \E e \in 1..Len(ret) :
           /\ ret[e].carat = str_22K
           /\ ret[e].prices = <<PairOf(call, 2, 3), PairOf(call, 2, 2), PairOf(call, 2, 1)>>
           /\ ret[e].prices[1].price = 7503


(***************************************************************************)
(* SpecDocId: get_document_id applied to two records.                      *)
(***************************************************************************)
str_tanishq == <<"t", "a", "n", "i", "s", "h", "q">>
str_Kalyan_underscore_Jewellers ==
    <<"K", "a", "l", "y", "a", "n", "_", "J", "e", "w", "e", "l", "l", "e", "r", "s">>
str_Navi_Mumbai == <<"N", "a", "v", "i", " ", "M", "u", "m", "b", "a", "i">>
str_2025_07_22 == <<"2", "0", "2", "5", "-", "0", "7", "-", "2", "2">>
str_tanishq_mumbai_18k_2025_07_21 ==
    <<"t", "a", "n", "i", "s", "h", "q", "_", "m", "u", "m", "b", "a", "i", "_",
      "1", "8", "k", "_", "2", "0", "2", "5", "-", "0", "7", "-", "2", "1">>

\* jeweller names: the adapters' names, a lower-case spelling, an underscore
\* spelling, and two short names that move an underscore across the field border
DocIdJewellers ==
    {str_Tanishq, str_tanishq, str_Kalyan_Jewellers, str_Kalyan_underscore_Jewellers,
     <<"A">>, <<"A", "_", "B">>}

DocIdCities == {str_Mumbai, str_Pune, str_Navi_Mumbai, <<"C">>, <<"B", "_", "C">>}

DocIdRecords ==
    { GoldPriceData(j, c, k, 7585, d) :
        j \in DocIdJewellers, c \in DocIdCities,
        k \in {str_18K, str_22K}, d \in {str_2025_07_21, str_2025_07_22} }

InitDocId ==
    /\ call \in { [fn |-> "get_document_id", a |-> a, b |-> b] :
                    a \in DocIdRecords, b \in DocIdRecords }
    /\ ret = <<>>
    /\ returned = FALSE
    /\ IdleProc

CallGetDocumentId ==
    /\ ~returned
    /\ call.fn = "get_document_id"
    /\ ret' = <<get_document_id(call.a), get_document_id(call.b)>>
    /\ returned' = TRUE
    /\ UNCHANGED <<call, procVars>>

NextDocId == CallGetDocumentId

SpecDocId == InitDocId /\ [][NextDocId]_vars

\* the (jeweller, city, carat, date) tuple of a record
KeyTuple(r) == <<r.jeweller, r.city, r.carat, r.date>>

TanishqMumbai18K == GoldPriceData(str_Tanishq, str_Mumbai, str_18K, 7585, str_2025_07_21)

\* the example of the spec: its record gets the id tanishq_mumbai_18k_2025-07-21
DocIdExample(r, id) == r = TanishqMumbai18K => id = str_tanishq_mumbai_18k_2025_07_21

PlainFields(r) ==
    \A f \in 1..4 : \A i \in 1..Len(KeyTuple(r)[f]) : KeyTuple(r)[f][i] \notin {" ", "_"}

\* the tuples differ in some field by more than the case of their letters
DifferBeyondCase(a, b) == \E f \in 1..4 : lower(KeyTuple(a)[f]) # lower(KeyTuple(b)[f])

MaxSummaryLen == 2

SummaryRecords ==
    { GoldPriceData(str_Tanishq, c, str_22K, 7585, d) :
        c \in {str_Mumbai, str_Pune}, d \in {str_2025_07_21, str_2025_07_22} }

SummaryKeys == {"tanishq", "kalyan"}

SummaryDicts ==
    UNION { [K -> SeqsUpTo(SummaryRecords, MaxSummaryLen)] : K \in SUBSET SummaryKeys }

InitSummary ==
    /\ call \in { [fn |-> "create_summary_data", all_data |-> d] : d \in SummaryDicts }
    /\ ret = <<>>
    /\ returned = FALSE
    /\ IdleProc

CallCreateSummaryData ==
    /\ ~returned
    /\ call.fn = "create_summary_data"
    /\ ret' = create_summary_data(call.all_data)
    /\ returned' = TRUE
    /\ UNCHANGED <<call, procVars>>

NextSummary == CallCreateSummaryData

SpecSummary == InitSummary /\ [][NextSummary]_vars

\* the dict holds no record: every key maps to an empty list
NoRecords(all_data) == \A k \in DOMAIN all_data : all_data[k] = <<>>

NullRange == [from |-> None, to |-> None]

\* C8 as stated: on an input with no records (a dict whose keys map to empty lists
\* included) the summary has total_entries 0, no cities, no jewellers and a null
\* date range, and the call does not raise.
C8_EmptySummary ==
    (returned /\ call.fn = "create_summary_data" /\ NoRecords(call.all_data)) =>
        /\ ~ret.raised
        /\ ret.total_entries = 0
        /\ ret.cities = {}
        /\ ret.jewellers = {}
        /\ ret.date_range = NullRange

\* C8 amended: on an input with no records the summary has total_entries 0, no
\* cities, a null date range and does not raise; its jewellers are the keys of the
\* dict, so the list is empty only for the dict without keys.
C8_EmptySummaryKeepsKeys ==
    (returned /\ call.fn = "create_summary_data" /\ NoRecords(call.all_data)) =>
        /\ ~ret.raised
        /\ ret.total_entries = 0
        /\ ret.cities = {}
        /\ ret.jewellers = DOMAIN call.all_data
        /\ ret.date_range = NullRange

\* C8 witness: the summary of {"tanishq": []}, as main builds it after a scrape
\* that found nothing, lists the key tanishq and is otherwise empty.
C8_Witness ==
    /\ returned
    /\ call.fn = "create_summary_data"
    /\ DOMAIN call.all_data = {"tanishq"}
    /\ call.all_data["tanishq"] = <<>>
    /\ ret.total_entries = 0
    /\ ret.jewellers = {"tanishq"}
    /\ ret.date_range = NullRange


(***************************************************************************)
(* Spec: the scrape calls of a GoldPriceManager.  A caller makes one call  *)
(* at a time; the environment of each call (the page the site serves and   *)
(* the one fault, if any, of the browser) is chosen with the call.         *)
(***************************************************************************)
\* the position of the supported city whose scrape_city_prices call may fail
MaxFaultAt == 2

\* the days arguments tried
MaxDays == 2

str_Paris == <<"P", "a", "r", "i", "s">>

\* the value of a price input holding these tokens
PageWith(hasDates, dates, tokens, state) ==
    [id \in PageIds |->
        IF id = DatesInputId
        THEN [present |-> hasDates, value |-> RenderArray(dates)]
        ELSE LET k == CHOOSE k \in 1..Len(input_ids) : input_ids[k].id = id
             IN  [present |-> state[k] # "missing",
                  value |-> IF state[k] = "garbled"
                            THEN RenderArray(Append(tokens[k], str_NA))
                            ELSE RenderArray(tokens[k])]]

AllOk == [k \in 1..Len(input_ids) |-> "ok"]

\* two days of prices in the plausible range
PlainPage ==
    PageWith(TRUE, <<DateToken(1), DateToken(2)>>,
             [k \in 1..Len(input_ids) |-> <<PriceToken(k, 1), PriceToken(k, 2)>>], AllOk)

\* one day, whose prices are 500 (18K), 1000 (22K) and 25000 (24K) rupees
OddPricePage ==
    PageWith(TRUE, <<DateToken(1)>>,
             <<<< <<"5", "0", "0">> >>, << <<"1", "0", "0", "0">> >>,
               << <<"2", "5", "0", "0", "0">> >>>>, AllOk)

\* no dates input
NoDatesPage == PageWith(FALSE, <<>>, [k \in 1..Len(input_ids) |-> <<PriceToken(k, 1)>>], AllOk)

\* the 24K input is missing
No24KPage ==
    PageWith(TRUE, <<DateToken(1)>>, [k \in 1..Len(input_ids) |-> <<PriceToken(k, 1)>>],
             [k \in 1..Len(input_ids) |-> IF k = 3 THEN "missing" ELSE "ok"])

ManagerPages == {PlainPage, OddPricePage, NoDatesPage, No24KPage}

\* one call's environment: the page served, and the fault of the fault_at-th
\* position of the city list (0: no fault)
Schedules ==
    { [page |-> p, fault_at |-> 0, fault |-> "none"] : p \in ManagerPages }
    \cup { [page |-> p, fault_at |-> i, fault |-> f] :
             p \in ManagerPages, i \in 1..MaxFaultAt, f \in Faults \ {"none"} }

\* the env of each position of a city list under a schedule
EnvsOf(sched) ==
    [i \in 1..Len(supported_cities("tanishq")) |->
        [page |-> sched.page,
         fault |-> IF i = sched.fault_at THEN sched.fault ELSE "none"]]

AdapterEnvsOf(sched) == [name \in ScraperIds |-> EnvsOf(sched)]

NoCities == [is_none |-> TRUE, value |-> <<>>]
Cities(list) == [is_none |-> FALSE, value |-> list]

CitiesArgs ==
    {NoCities, Cities(<<>>), Cities(<<str_Mumbai>>), Cities(<<str_Kochi>>),
     Cities(<<str_Mumbai, str_Kochi>>), Cities(<<str_Kochi, str_Mumbai>>),
     Cities(<<str_Mumbai, str_Delhi>>), Cities(<<str_Paris, str_Pune>>)}

DaysArgs == 0..MaxDays

\* retailer ids nobody registered: the display name is not the key
UnregisteredIds == {"malabar", "Tanishq"}

Init ==
    /\ NoCall
    /\ IdleProc

\* manager.scrape_jeweller(jeweller_name, cities, days)
ScrapeJeweller ==
    /\ pc = "idle"
    /\ \E name \in ScraperIds \cup UnregisteredIds, cities \in CitiesArgs,
          days \in DaysArgs, sched \in Schedules :
        /\ op' = [name |-> "scrape_jeweller", jeweller_name |-> name,
                  cities |-> cities, days |-> days, sched |-> sched]
        /\ result' = scrape_jeweller(name, cities, days, EnvsOf(sched))
    /\ pc' = "returned"
    /\ UNCHANGED <<pureVars, pushVars, mainVars>>

\* manager.scrape_all_jewellers(cities, days)
ScrapeAllJewellers ==
    /\ pc = "idle"
    /\ \E cities \in CitiesArgs, days \in DaysArgs, sched \in Schedules :
        /\ op' = [name |-> "scrape_all_jewellers", jeweller_name |-> "",
                  cities |-> cities, days |-> days, sched |-> sched]
        /\ result' = scrape_all_jewellers(cities, days, AdapterEnvsOf(sched), 1)
    /\ pc' = "returned"
    /\ UNCHANGED <<pureVars, pushVars, mainVars>>

\* the caller takes the outcome; the manager keeps nothing of a scrape
Return ==
    /\ pc = "returned"
    /\ pc' = "idle"
    /\ op' = NoOp
    /\ result' = NoResult
    /\ UNCHANGED <<pureVars, pushVars, mainVars>>

Next == ScrapeJeweller \/ ScrapeAllJewellers \/ Return

Spec == Init /\ [][Next]_vars

\* what reaches the adapters, the browser and the network
OutsideEvents == {"scrape_city_prices", "browser_start", "page_get", "browser_quit",
                  "browser_quit_failed"}

\* C9: scrape_jeweller with an unregistered retailer id fails with an
\* "Unsupported jeweller" error before any adapter call: no browser session is
\* started and nothing goes to the network, whatever cities and days are.
C9_UnsupportedJeweller ==
    (pc = "returned" /\ op.name = "scrape_jeweller"
        /\ op.jeweller_name \notin {"tanishq", "kalyan", "joyalukkas"}) =>
        /\ result.raised
        /\ result.error = "ValueError: Unsupported jeweller"
        /\ result.value = <<>>
        /\ \A i \in 1..Len(result.events) : result.events[i].ev \notin OutsideEvents

\* C9 witness: scrape_jeweller("Tanishq", ["Mumbai"], 2), the display name in
\* place of the key, has raised.
C9_Witness ==
    /\ pc = "returned"
    /\ op.name = "scrape_jeweller"
    /\ op.jeweller_name = "Tanishq"
    /\ op.cities = Cities(<<str_Mumbai>>)
    /\ op.days = 2
    /\ result.raised
    /\ result.events = <<>>

\* the entry of key in a dict given as [key, data] entries
EntriesOf(dict, key) == { i \in 1..Len(dict) : dict[i].key = key }

\* what scrape_jeweller does for an adapter under the call's arguments
OwnScrape(o, name) == scrape_jeweller(name, o.cities, o.days, AdapterEnvsOf(o.sched)[name])

\* C10: scrape_all_jewellers returns a mapping with exactly one key per registered
\* adapter; an adapter whose scrape raises gets an empty sequence, and every other
\* adapter is still scraped (its calls are made) and keeps its own result.
C10_FailureIsolated ==
    (pc = "returned" /\ op.name = "scrape_all_jewellers") =>
        /\ ~result.raised
        /\ Len(result.value) = 3
        /\ \A name \in {"tanishq", "kalyan", "joyalukkas"} :
            /\ Cardinality(EntriesOf(result.value, name)) = 1
            /\ \A i \in EntriesOf(result.value, name) :
                 result.value[i].data =
                    IF OwnScrape(op, name).raised THEN <<>> ELSE OwnScrape(op, name).value
            /\ Range(OwnScrape(op, name).events) \subseteq Range(result.events)

\* C10 witness: with cities [Mumbai, Kochi] the Tanishq scrape raised (its key maps
\* to []), and the Kalyan adapter was still called for both cities afterwards.
C10_Witness ==
    /\ pc = "returned"
    /\ op.name = "scrape_all_jewellers"
    /\ op.cities = Cities(<<str_Mumbai, str_Kochi>>)
    /\ OwnScrape(op, "tanishq").raised
    /\ result.value[1] = [key |-> "tanishq", data |-> <<>>]
    /\ \E i, j \in 1..Len(result.events) :
        /\ i < j
        /\ result.events[i] = Event("scrape_city_prices", "kalyan", str_Mumbai, 0)
        /\ result.events[j] = Event("scrape_city_prices", "kalyan", str_Kochi, 0)
        /\ \E h \in 1..(i - 1) : result.events[h].scraper = "tanishq"


(***************************************************************************)
(* SpecPush: push_to_firebase called on record lists around the batch      *)
(* size, with and without a sink, and called again on the same list.       *)
(***************************************************************************)
\* the longest pushed list has MaxBatches full batches and one record more
MaxBatches == 1

\* how many times the list is pushed
MaxPushes == 2

\* the longest of the short lists
MaxShort == 5

\* the lengths around the batch size: one less than, exactly, and one more than b
\* full batches
LongSizes == { b * BatchCap + d : b \in 1..MaxBatches, d \in {-1, 0, 1} }

\* n records over `period` dates, so with min(n, period) distinct document ids
PushList(n, period) ==
    [i \in 1..n |->
        GoldPriceData(str_Tanishq, str_Pune, str_22K, 7500 + i, DateToken(((i - 1) % period) + 1))]

\* short lists with one, two or three distinct ids, and long lists of one id
PushLists ==
    { PushList(n, period) : n \in 0..MaxShort, period \in 1..3 }
    \cup { PushList(n, 1) : n \in LongSizes }

InitPush ==
    /\ NoCall
    /\ pc = "idle"
    /\ firebase_manager \in {"none", "ready"}
    /\ IdleScrape
    /\ IdlePush
    /\ IdleMain

\* which commit of a call fails: none, or one of the first MaxBatches + 1
FailAts == 0..(MaxBatches + 1)

\* manager.push_to_firebase(data)
PushToFirebase ==
    /\ pc = "idle"
    /\ pushes = 0
    /\ \E records \in PushLists, fail_at \in FailAts : PushCall(records, fail_at)
    /\ UNCHANGED <<pc, pureVars, scrapeVars, mainVars>>

\* manager.push_to_firebase(data) once more, for the same data: a repeated run
PushAgain ==
    /\ pc = "idle"
    /\ pushes > 0
    /\ pushes < MaxPushes
    /\ \E fail_at \in FailAts : PushCall(push_data, fail_at)
    /\ UNCHANGED <<pc, pureVars, scrapeVars, mainVars>>

NextPush == PushToFirebase \/ PushAgain

SpecPush == InitPush /\ [][NextPush]_vars

\* the positions written by the commits, in commit order
RECURSIVE Concat(_)
Concat(batches) ==
    IF Len(batches) = 0 THEN <<>> ELSE Head(batches) \o Concat(Tail(batches))

\* C6: a push of n records with no commit failure makes exactly ceil(n/500) commits,
\* none of more than 500 writes, and every record is written in exactly one of
\* them (the commits, end to end, are the positions 1..n, each once); 501 records make 2 commits, of 500 and of 1.
C6_CommitCount ==
    (push_result = "true") =>
        /\ Len(commits) = (Len(push_data) + 499) \div 500
        /\ \A c \in 1..Len(commits) : Len(commits[c]) <= 500
        /\ Concat(commits) = [i \in 1..Len(push_data) |-> i]
        /\ Len(push_data) = 501 => (Len(commits[1]) = 500 /\ Len(commits[2]) = 1)

\* C6 witness: a push of 501 records has returned True after 2 commits.
C6_Witness ==
    /\ push_result = "true"
    /\ Len(push_data) = 501
    /\ Len(commits) = 2
    /\ Len(commits[1]) = 500
    /\ commits[2] = <<501>>

\* the document ids of the pushed records
IdsOf(records) == { get_document_id(records[i]) : i \in 1..Len(records) }

\* C7: push_to_firebase is an upsert keyed by the derived document id: a push that
\* succeeds leaves exactly one document per distinct id of its records, and
\* pushing the same records again leaves the same set of ids (it overwrites).
C7_IdempotentUpsert ==
    /\ (push_result = "true") =>
            /\ DOMAIN store = IdsOf(push_data)
            /\ Cardinality(DOMAIN store) = Cardinality(IdsOf(push_data))
    /\ \A p, q \in 1..Len(push_log) :
            (push_log[p].result = "true" /\ push_log[q].result = "true")
                => push_log[p].ids = push_log[q].ids

\* C7 witness: three records with one document id have been pushed twice, both
\* times with success, and the collection holds one document.
C7_Witness ==
    /\ Len(push_log) = 2
    /\ push_log[1].result = "true"
    /\ push_log[2].result = "true"
    /\ Len(push_data) = 3
    /\ push_data[1].date = push_data[3].date
    /\ Cardinality(push_log[1].ids) = 1
    /\ push_log[2].ids = push_log[1].ids
    /\ DOMAIN store = push_log[2].ids


(***************************************************************************)
(* SpecMain: one run of the command line, from the parsed arguments to the *)
(* push.                                                                   *)
(***************************************************************************)
\* --jewellers: one or more of the registered ids
JewellersArgs == {<<"tanishq">>, <<"kalyan">>, <<"joyalukkas", "tanishq">>}

\* --cities (nargs='+'): absent, or a list that is not empty
CliCitiesArgs ==
    {NoCities, Cities(<<str_Mumbai>>), Cities(<<str_Mumbai, str_Kochi>>),
     Cities(<<str_Paris, str_Pune>>)}

\* --days: a positive count
CliDaysArgs == 1..MaxDays

\* the environments of a run: a fault, if any, hits the first city scraped
MainSchedules == { sched \in Schedules : sched.fault_at <= 1 }

\* --firebase-key: absent, the path of a service account key, or of something else
FirebaseKeys == {"none", "valid", "invalid"}

MainArgs ==
    [jewellers : JewellersArgs, cities : CliCitiesArgs, days : CliDaysArgs,
     no_firebase : BOOLEAN, firebase_key : FirebaseKeys]

InitMain ==
    /\ NoCall
    /\ pc = "main_start"
    /\ firebase_manager = "none"
    /\ IdleScrape
    /\ IdlePush
    /\ args \in MainArgs
    /\ main_all_data = <<>>
    /\ main_flat_data = <<>>

\* manager = GoldPriceManager(firebase_path)
MainCreateManager ==
    /\ pc = "main_start"
    /\ firebase_manager' = manager_init(IF args.no_firebase THEN "none" ELSE args.firebase_key)
    /\ pc' = "main_scrape"
    /\ UNCHANGED <<pureVars, scrapeVars, mainVars>>
    /\ UNCHANGED <<push_data, commits, store, push_result, pushes, push_log,
                   summary_store, summary_result>>

\* the scrape block: an exception of scrape_jeweller is not caught and ends the run
MainScrape ==
    /\ pc = "main_scrape"
    /\ \E sched \in MainSchedules :
        /\ op' = [name |-> "main", jeweller_name |-> "", cities |-> args.cities,
                  days |-> args.days, sched |-> sched]
        /\ result' = main_scrape(args.jewellers, args.cities, args.days, AdapterEnvsOf(sched), 1)
        /\ main_all_data' = result'.value
        /\ pc' = IF result'.raised THEN "main_crashed" ELSE "main_flatten"
    /\ UNCHANGED <<pureVars, pushVars, args, main_flat_data>>

\* flat_data is built and the summary computed and printed
MainFlatten ==
    /\ pc = "main_flatten"
    /\ main_flat_data' = flatten(main_all_data)
    /\ pc' = "main_push"
    /\ UNCHANGED <<pureVars, scrapeVars, pushVars, args, main_all_data>>

\* if not args.no_firebase and manager.firebase_manager: push_to_firebase(flat_data)
MainPush ==
    /\ pc = "main_push"
    /\ IF ~args.no_firebase /\ firebase_manager # "none"
       THEN \E fail_at \in 0..1 : PushCall(main_flat_data, fail_at)
       ELSE UNCHANGED pushVars
    /\ pc' = "main_done"
    /\ UNCHANGED <<pureVars, scrapeVars, mainVars>>

NextMain == MainCreateManager \/ MainScrape \/ MainFlatten \/ MainPush

SpecMain == InitMain /\ [][NextMain]_vars

\* the adapter whose name a record carries
AdapterOf(r) ==
    CASE r.jeweller = str_Tanishq -> "tanishq"
      [] r.jeweller = str_Kalyan_Jewellers -> "kalyan"
      [] OTHER -> "joyalukkas"

\* C1: in every run of the command line, every record handed to push_to_firebase,
\* and so every document written, has 1000 < price < 20000, a carat of 18K, 22K,
\* 24K and a city its retailer supports.
C1_PersistedRecordsValid ==
    (pc = "main_done" /\ pushes > 0) =>
        /\ \A i \in 1..Len(push_data) : AcceptableRecord(AdapterOf(push_data[i]), push_data[i])
        /\ \A d \in DOMAIN store : AcceptableRecord(AdapterOf(store[d]), store[d])


(***************************************************************************)
(* scrape_jeweller with requested cities, under Spec.                      *)
(***************************************************************************)
\* the cities of the adapter calls among these events, in order
AdapterCalls(events) ==
    LET calls == SelectSeq(events, LAMBDA e : e.ev = "scrape_city_prices")
    IN  [i \in 1..Len(calls) |-> calls[i].city]

\* the requested cities the adapter supports, in request order
SupportedRequested(name, cities) ==
    SelectSeq(cities, LAMBDA c : InList(c, supported_cities(name)))

\* the adapter's outcome for the i-th requested city under the call's environment
CityOutcome(o, i) ==
    scrape_city_prices(o.jeweller_name, o.cities.value[i], o.days, EnvsOf(o.sched)[i])

\* the adapter's results for the requested cities, one list per position: nothing
\* for a city outside the supported set
CityParts(o) ==
    [i \in 1..Len(o.cities.value) |->
        IF InList(o.cities.value[i], supported_cities(o.jeweller_name))
        THEN CityOutcome(o, i).value
        ELSE <<>>]

\* the positions of the supported requested cities whose adapter call raises
RaisingPositions(o) ==
    { i \in 1..Len(o.cities.value) :
        /\ InList(o.cities.value[i], supported_cities(o.jeweller_name))
        /\ CityOutcome(o, i).raised }

\* a scrape_jeweller call on a registered adapter with a city list has returned
C11_Case(o) ==
    /\ pc = "returned"
    /\ o.name = "scrape_jeweller"
    /\ o.jeweller_name \in {"tanishq", "kalyan", "joyalukkas"}
    /\ ~o.cities.is_none

\* what C11 says of such a call that returned a value
C11_Conclusion(o) ==
    /\ result.value = Concat(CityParts(o))
    /\ AdapterCalls(result.events) = SupportedRequested(o.jeweller_name, o.cities.value)

\* C11 as stated: scrape_jeweller with a requested city list (any list, the empty
\* one included) returns the concatenation, in request order, of the adapter's
\* results for exactly the requested cities the adapter supports, and calls the
\* adapter for no other city.
C11_RequestedCities ==
    (C11_Case(op) /\ ~result.raised) => C11_Conclusion(op)

\* C11 amended: for a list that is not empty, an unsupported city raises nothing
\* and causes no adapter call (the call raises exactly when an adapter call on a
\* supported city raises), and a call that returns gives the concatenation, in
\* request order, of the adapter's results for the supported requested cities.
C11_NonEmptyRequestedCities ==
    (C11_Case(op) /\ Len(op.cities.value) > 0) =>
        /\ result.raised <=> RaisingPositions(op) # {}
        /\ ~result.raised => C11_Conclusion(op)

\* C11 witness: scrape_jeweller("tanishq", ["Paris", "Pune"], 2) on a two-day page
\* made one adapter call, for Pune, and returned its six records.
C11_Witness ==
    /\ C11_Case(op)
    /\ op.jeweller_name = "tanishq"
    /\ op.cities = Cities(<<str_Paris, str_Pune>>)
    /\ op.days = 2
    /\ ~result.raised
    /\ AdapterCalls(result.events) = <<str_Pune>>
    /\ Len(result.value) = 6
    /\ \A i \in 1..6 : result.value[i].city = str_Pune


(***************************************************************************)
(* SpecCity: one call of TanishqScraper.scrape_city_prices, in every       *)
(* environment: each page, and each fault of the browser.                  *)
(***************************************************************************)
\* the 18K array ends in a token that is no number
GarbledPage ==
    PageWith(TRUE, <<DateToken(1)>>, [k \in 1..Len(input_ids) |-> <<PriceToken(k, 1)>>],
             [k \in 1..Len(input_ids) |-> IF k = 1 THEN "garbled" ELSE "ok"])

CityPages == ManagerPages \cup {GarbledPage}

CityCalls ==
    { [fn |-> "scrape_city_prices", city |-> c, days |-> d, env |-> [fault |-> f, page |-> p]] :
        c \in {str_Mumbai, str_Pune}, d \in 0..MaxDays, f \in Faults, p \in CityPages }

InitCity ==
    /\ call \in CityCalls
    /\ ret = <<>>
    /\ returned = FALSE
    /\ IdleProc

\* TanishqScraper().scrape_city_prices(city, days)
CallScrapeCityPrices ==
    /\ ~returned
    /\ call.fn = "scrape_city_prices"
    /\ ret' = tanishq_scrape_city_prices(call.city, call.days, call.env)
    /\ returned' = TRUE
    /\ UNCHANGED <<call, procVars>>

NextCity == CallScrapeCityPrices

SpecCity == InitCity /\ [][NextCity]_vars

\* the failures C12 names: browser launch, page load and browser shutdown (a
\* missing element and an array that does not parse are in the pages)
BrowserFaults == {"launch", "load", "load_quit", "quit_once", "quit_twice"}

\* C12: scrape_city_prices never raises to its caller: whatever fails during the
\* call (browser launch, page load, element lookup, parsing, browser shutdown),
\* the call returns a sequence of records, possibly empty.
C12_NeverRaises ==
    (returned /\ call.fn = "scrape_city_prices" /\ call.env.fault \in BrowserFaults \cup {"none"}) =>
        ~ret.raised

\* how many of the events are ev
CountOf(events, ev) == Cardinality({ i \in 1..Len(events) : events[i].ev = ev })

\* the browser sessions started and not terminated by a driver.quit() that completed
OpenSessions(events) == CountOf(events, "browser_start") - CountOf(events, "browser_quit")

\* C13: whenever scrape_city_prices started a browser session, the session has been
\* terminated when the call ends, on the success path and on every error path.
C13_SessionReleased ==
    (returned /\ call.fn = "scrape_city_prices") => OpenSessions(ret.events) = 0


(***************************************************************************)
(* A commit that fails, under SpecPush.                                    *)
(***************************************************************************)
\* the batch.commit() calls a push of these records makes when none fails
NeededCommits(records) == (Len(records) + 499) \div 500

\* the call of push_to_firebase that returned last
LastPush == push_log[Len(push_log)]

\* the records of the sub-batches before the k-th
BeforeBatch(records, k) == SubSeq(records, 1, (k - 1) * 500)

\* the last push had a sink, and its k-th commit failed
C14_Case ==
    /\ pushes > 0
    /\ firebase_manager = "ready"
    /\ LastPush.fail_at \in 1..NeededCommits(push_data)

\* C14: when the k-th commit of a push fails, the push returns False, the
\* documents of the k-1 sub-batches committed before remain in the store (as
\* do those of earlier pushes), and no record of the failed sub-batch or after it
\* is written: a first push leaves the documents of records 1..500(k-1) only.
C14_FailedCommit ==
    C14_Case =>
        LET k == LastPush.fail_at IN
        /\ push_result = "false"
        /\ Len(commits) = k - 1
        /\ Concat(commits) = [i \in 1..((k - 1) * 500) |-> i]
        /\ IdsOf(BeforeBatch(push_data, k)) \subseteq DOMAIN store
        /\ pushes > 1 => push_log[pushes - 1].ids \subseteq DOMAIN store
        /\ pushes = 1 =>
            /\ DOMAIN store = IdsOf(BeforeBatch(push_data, k))
            /\ \A d \in DOMAIN store : store[d] \in Range(BeforeBatch(push_data, k))

\* C14 witness: the second commit of a first push of 501 records failed; the push
\* returned False after one commit of 500, and the store holds record 500 and
\* not record 501.
C14_Witness ==
    /\ C14_Case
    /\ pushes = 1
    /\ Len(push_data) = 501
    /\ LastPush.fail_at = 2
    /\ push_result = "false"
    /\ Len(commits) = 1
    /\ \E d \in DOMAIN store : store[d] = push_data[500]
    /\ \A d \in DOMAIN store : store[d] # push_data[501]


(***************************************************************************)
(* SpecSink: a manager is constructed with a service account path that is  *)
(* absent, good or bad, and is then used: one scrape, one push of what was *)
(* scraped, one push of its summary.                                       *)
(***************************************************************************)
\* the scrapes of a run: with and without an unsupported city
SinkCities == {Cities(<<str_Mumbai>>), Cities(<<str_Paris, str_Pune>>)}

\* their environments: nothing fails, or the first city's call raises
SinkSchedules ==
    { [page |-> p, fault_at |-> 0, fault |-> "none"] : p \in {PlainPage, OddPricePage} }
    \cup { [page |-> PlainPage, fault_at |-> 1, fault |-> "load_quit"] }

InitSink ==
    /\ NoCall
    /\ pc = "new"
    /\ firebase_manager = "none"
    /\ IdleScrape
    /\ IdlePush
    /\ args \in { [firebase_key |-> key] : key \in FirebaseKeys }
    /\ main_all_data = <<>>
    /\ main_flat_data = <<>>

\* manager = GoldPriceManager(firebase_service_account_path)
SinkCreateManager ==
    /\ pc = "new"
    /\ firebase_manager' = manager_init(args.firebase_key)
    /\ pc' = "idle"
    /\ UNCHANGED <<pureVars, scrapeVars, mainVars>>
    /\ UNCHANGED <<push_data, commits, store, push_result, pushes, push_log,
                   summary_store, summary_result>>

\* manager.scrape_jeweller("tanishq", cities, days), any exception caught by the caller
SinkScrape ==
    /\ pc = "idle"
    /\ \E cities \in SinkCities, days \in 1..MaxDays, sched \in SinkSchedules :
        /\ op' = [name |-> "scrape_jeweller", jeweller_name |-> "tanishq",
                  cities |-> cities, days |-> days, sched |-> sched]
        /\ result' = scrape_jeweller("tanishq", cities, days, EnvsOf(sched))
    /\ pc' = "scraped"
    /\ UNCHANGED <<pureVars, pushVars, mainVars>>

\* manager.push_to_firebase(data)
SinkPush ==
    /\ pc = "scraped"
    /\ \E fail_at \in 0..1 : PushCall(result.value, fail_at)
    /\ pc' = "pushed"
    /\ UNCHANGED <<pureVars, scrapeVars, mainVars>>

\* manager.push_summary_to_firebase(manager.create_summary_data({"tanishq": data}))
SinkPushSummary ==
    /\ pc = "pushed"
    /\ \E today \in {str_2025_07_21, str_2025_07_22}, set_fails \in BOOLEAN :
        LET summary == create_summary_data([k \in {"tanishq"} |-> result.value])
            out == push_summary_to_firebase(firebase_manager, summary_store, summary,
                                            today, set_fails)
        IN  /\ summary_result' = out.result
            /\ summary_store' = out.store
    /\ pc' = "done"
    /\ UNCHANGED <<pureVars, scrapeVars, mainVars>>
    /\ UNCHANGED <<firebase_manager, push_data, commits, store, push_result, pushes, push_log>>

NextSink == SinkCreateManager \/ SinkScrape \/ SinkPush \/ SinkPushSummary

SpecSink == InitSink /\ [][NextSink]_vars

\* C15: when the sink's initialization fails (no credentials, or credentials that
\* are no good), the constructor still returns a manager, with firebase_manager
\* None; scraping gives what it gives with a sink; and every push_to_firebase and
\* push_summary_to_firebase call after it returns False and writes nothing.
C15_NoSinkNoWrite ==
    (pc # "new" /\ args.firebase_key # "valid") =>
        /\ firebase_manager = "none"
        /\ pc \in {"scraped", "pushed", "done"} =>
              result = scrape_jeweller(op.jeweller_name, op.cities, op.days, EnvsOf(op.sched))
        /\ pc \in {"pushed", "done"} => push_result = "false"
        /\ pc = "done" => summary_result = "false"
        /\ commits = <<>>
        /\ store = <<>>
        /\ summary_store = <<>>

\* C15 witness: with credentials that are no good, six records were scraped, and
\* both pushes returned False and left the collections empty.
C15_Witness ==
    /\ pc = "done"
    /\ args.firebase_key = "invalid"
    /\ firebase_manager = "none"
    /\ Len(result.value) = 6
    /\ Len(push_data) = 6
    /\ push_result = "false"
    /\ summary_result = "false"
    /\ store = <<>>
    /\ summary_store = <<>>


(***************************************************************************)
(* The pauses between scrapes, under Spec.                                 *)
(***************************************************************************)
\* the positions of the adapter calls among the events
CallPositions(events) == { i \in 1..Len(events) : events[i].ev = "scrape_city_prices" }

\* i and j are two adapter calls with none between them
ConsecutiveCalls(events, i, j) ==
    /\ i \in CallPositions(events)
    /\ j \in CallPositions(events)
    /\ i < j
    /\ \A h \in (i + 1)..(j - 1) : h \notin CallPositions(events)

\* a time.sleep(secs) lies between positions i and j
PauseBetween(events, i, j, secs) ==
    \E h \in (i + 1)..(j - 1) : events[h].ev = "sleep" /\ events[h].secs = secs

\* C16: within one retailer's scrape a fixed pause lies between every two
\* consecutive city scrapes, with the cities given explicitly as well as with the
\* full supported set, and a longer pause lies between the scrapes of two
\* consecutive retailers in scrape_all_jewellers.
C16_PausesBetweenScrapes ==
    (pc = "returned") =>
        \A i, j \in 1..Len(result.events) :
            ConsecutiveCalls(result.events, i, j) =>
                IF result.events[i].scraper = result.events[j].scraper
                THEN PauseBetween(result.events, i, j, CityDelay)
                ELSE PauseBetween(result.events, i, j, JewellerDelay)


(***************************************************************************)
(* Missing and unparsable fields, and array lengths, under SpecExtract.    *)
(***************************************************************************)
\* karat entry k of the call's page yields no price list: its input is missing,
\* or its array does not parse ("[]" holds one token, the empty string, which is
\* no number)
KaratFails(c, k) == c.state[k] # "ok" \/ c.m = 0

\* the position in input_ids of a carat
KaratIndex(carat) == CHOOSE k \in 1..Len(input_ids) : input_ids[k].carat = carat

\* what the extraction returns for the same dates, prices and days when every
\* karat's input is there and clean
CleanResult(c) ==
    _extract_from_hidden_inputs(RenderPage(TRUE, c.dates, c.m, AllOk), c.days)

\* C17: a karat whose hidden input is missing, or whose price array does not
\* parse, contributes nothing, while the other karats' records are returned as
\* they are for the clean page; with the dates input missing, the extraction
\* returns nothing for any karat.
C17_KaratIsolation ==
    (returned /\ call.fn = "_extract_from_hidden_inputs") =>
        IF call.hasDates
        THEN ret = SelectSeq(CleanResult(call),
                             LAMBDA e : ~KaratFails(call, KaratIndex(e.carat)))
        ELSE ret = <<>>

\* C17 witness: two dates, two prices per karat, the 18K array unparsable and the
\* 24K input missing: the result is the 22K entry alone, with its two records.
C17_Witness ==
    /\ returned
    /\ call.fn = "_extract_from_hidden_inputs"
    /\ call.hasDates
    /\ call.dates = <<DateToken(1), DateToken(2)>>
    /\ call.m = 2
    /\ call.days = 2
    /\ call.state = <<"garbled", "ok", "missing">>
    /\ Len(ret) = 1
    /\ ret[1].carat = str_22K
    /\ ret[1].prices = <<PairOf(call, 2, 2), PairOf(call, 2, 1)>>

\* the records the call's result holds for karat entry k
RecordCount(r, k) ==
    IF \E e \in 1..Len(r) : r[e].carat = input_ids[k].carat
    THEN Len(r[CHOOSE e \in 1..Len(r) : r[e].carat = input_ids[k].carat].prices)
    ELSE 0

Min(a, b) == IF a <= b THEN a ELSE b
Max(a, b) == IF a >= b THEN a ELSE b

\* the empty tokens among the first n date tokens
EmptyTokens(dates, n) == Cardinality({ i \in 1..n : dates[i] = <<>> })

\* C18: for a date array of N tokens, a price array of M and any days, a karat's
\* extraction emits at most min(N, M, max(days, 0)) records: arrays of unequal
\* length are cut to the shorter, days <= 0 gives no record, and days >= min(N, M)
\* gives all min(N, M) pairs but those whose date token is empty.
C18_RecordCountBound ==
    (returned /\ call.fn = "_extract_from_hidden_inputs") =>
        \A k \in 1..Len(input_ids) :
            LET N == Len(call.dates)
                M == call.m
                n == RecordCount(ret, k)
            IN  /\ n <= Min(Min(N, M), Max(call.days, 0))
                /\ call.days <= 0 => n = 0
                /\ (call.hasDates /\ call.state[k] = "ok" /\ call.days >= Min(N, M)) =>
                       n = Min(N, M) - EmptyTokens(call.dates, Min(N, M))

\* C18 witness: five date tokens, the second empty, four 22K prices and days = 6
\* give three records: the pairs of days 4, 3 and 1.
C18_Witness ==
    /\ returned
    /\ call.fn = "_extract_from_hidden_inputs"
    /\ call.hasDates
    /\ Len(call.dates) = 5
    /\ call.dates[2] = <<>>
    /\ call.m = 4
    /\ call.days = 6
    /\ call.state[2] = "ok"
    /\ RecordCount(ret, 2) = 3
    /\ \E e \in 1..Len(ret) :
           /\ ret[e].carat = str_22K
           /\ ret[e].prices = <<PairOf(call, 2, 4), PairOf(call, 2, 3), PairOf(call, 2, 1)>>


=============================================================================
